---- MODULE Spec2Model ----
(***************************************************************************)
(* Model of the uncertainty wrappers (timm/models/_uncertainizer.py) and   *)
(* of the classifier-head factory helpers (timm/layers/classifier.py).     *)
(*                                                                         *)
(* Floating point values are modelled as exact non-negative rationals      *)
(* extended with +inf and NaN: every uncertainty, target and norm the      *)
(* model draws is >= 0, so -inf never arises.  Rounding is not modelled.   *)
(***************************************************************************)
EXTENDS Integers, Sequences, FiniteSets, TLC

(***************************************************************************)
(* Bounds of the model.                                                    *)
(***************************************************************************)
\* longest data source (in batches) and largest n_batches
MaxBatches == 2
\* number of initialize_avg_uncertainty calls made on one estimator
MaxCalib == 2
\* largest num_dropout_samples of a test-time-dropout backbone
MaxDropoutSamples == 2
\* largest head count of a shallow ensemble
MaxHeads == 2

(***************************************************************************)
(* Extended non-negative rationals: torch / Python float arithmetic.       *)
(***************************************************************************)
RECURSIVE GCD(_, _)
GCD(a, b) == IF b = 0 THEN a ELSE GCD(b, a % b)

Fin(n, d) == LET g == GCD(n, d) IN [k |-> "fin", n |-> n \div g, d |-> d \div g]
Inf == [k |-> "inf", n |-> 0, d |-> 1]
NaN == [k |-> "nan", n |-> 0, d |-> 1]
Zero == Fin(0, 1)
One == Fin(1, 1)

IsZero(a) == a.k = "fin" /\ a.n = 0
IsFinite(a) == a.k = "fin"

\* a * b (IEEE: inf * 0 = nan)
FMul(a, b) ==
    IF a.k = "nan" \/ b.k = "nan" THEN NaN
    ELSE IF a.k = "inf" \/ b.k = "inf"
         THEN (IF IsZero(a) \/ IsZero(b) THEN NaN ELSE Inf)
         ELSE Fin(a.n * b.n, a.d * b.d)

\* a + b (no negative values, so inf + x = inf)
FAdd(a, b) ==
    IF a.k = "nan" \/ b.k = "nan" THEN NaN
    ELSE IF a.k = "inf" \/ b.k = "inf" THEN Inf
         ELSE Fin(a.n * b.d + b.n * a.d, a.d * b.d)

\* a / b for b # 0 (inf / inf = nan, x / inf = 0)
FQuot(a, b) ==
    IF a.k = "nan" \/ b.k = "nan" THEN NaN
    ELSE IF b.k = "inf" THEN (IF a.k = "inf" THEN NaN ELSE Zero)
         ELSE IF a.k = "inf" THEN Inf
              ELSE Fin(a.n * b.d, a.d * b.n)

\* tensor division: a / 0 is inf (0 / 0 is nan), no error
TorchDiv(a, b) ==
    IF IsZero(b) THEN (IF a.k = "nan" \/ IsZero(a) THEN NaN ELSE Inf)
    ELSE FQuot(a, b)

\* (mutation: a division that never raises, as tensor division does)
PyDivNeverRaises(a, b) == FALSE

\* Python float division: a / 0.0 raises ZeroDivisionError
PyDivRaises(a, b) == IsZero(b)
PyDiv(a, b) == FQuot(a, b)

RECURSIVE FSum(_)
FSum(s) == IF s = <<>> THEN Zero ELSE FAdd(Head(s), FSum(Tail(s)))

\* tensor.mean() of a non-empty 1-d tensor
Mean(s) == TorchDiv(FSum(s), Fin(Len(s), 1))

\* integer square root (exact on the squares the model draws)
RECURSIVE ISqrtFrom(_, _)
ISqrtFrom(n, r) == IF (r + 1) * (r + 1) > n THEN r ELSE ISqrtFrom(n, r + 1)
ISqrt(n) == ISqrtFrom(n, 0)

RECURSIVE SumSquares(_)
SumSquares(v) == IF v = <<>> THEN 0 ELSE Head(v) * Head(v) + SumSquares(Tail(v))

\* features.norm(dim=-1) of one example
Norm(feat) == Fin(ISqrt(SumSquares(feat)), 1)

(***************************************************************************)
(* Inputs.  An example carries its pre-logits feature vector and, for the  *)
(* strategies whose raw uncertainty is computed by code outside these      *)
(* files (softmax/log, the uncertainty MLP, the GP head), that raw value:  *)
(* ent = entropy of the (mean) class distribution, dis = disagreement      *)
(* entropy_of_mean - mean_of_entropy of a stack of S >= 2 samples,         *)
(* net = output of UncertaintyNetwork, cov = covariance log-determinant.   *)
(***************************************************************************)
ExZero == [feat |-> <<0, 0>>, ent |-> 0, dis |-> 0, net |-> 1, cov |-> 0]
ExA == [feat |-> <<3, 4>>, ent |-> 1, dis |-> 1, net |-> 1, cov |-> 1]
ExB == [feat |-> <<0, 1>>, ent |-> 2, dis |-> 1, net |-> 2, cov |-> 2]

Batches == {<<ExZero>>, <<ExA>>, <<ExA, ExB>>}

RECURSIVE SeqsUpTo(_, _)
SeqsUpTo(S, n) ==
    IF n = 0 THEN {<<>>}
    ELSE LET shorter == SeqsUpTo(S, n - 1)
         IN shorter \cup {Append(q, e) : q \in {p \in shorter : Len(p) = n - 1}, e \in S}

\* data sources: finite iterables of batches
LoaderBatches == {<<ExZero>>, <<ExA, ExB>>}
Loaders == SeqsUpTo(LoaderBatches, MaxBatches)
Targets == {1, 2}

Kinds == {"norm", "const", "network", "entropy", "jsd", "cov"}
Backbones == {"plain", "dropout", "ensemble"}

\* num_classes values a classifier is reset to (0 removes the classifier)
ClassCounts == {0, 2}

VARIABLES
    kind,        \* which UncertaintyWrapper subclass the estimator is
    backbone,    \* type of the estimator's self.model: "plain", "dropout"
                 \* (ResNetDropout / VisionTransformerDropout) or "ensemble"
                 \* (a ShallowEnsembleWrapper around a plain backbone)
    model,       \* the innermost backbone: its attributes
    ens,         \* the ShallowEnsembleWrapper (backbone = "ensemble"): its fields
    wrapper,     \* the fields ModelWrapper.__init__ caches on the estimator
    training,    \* self.training of the estimator
    unc_scaler,  \* self.unc_scaler
    n_calib,     \* calibration calls made so far
    last,        \* the last call and what it returned or raised
    source,      \* the data source the estimator is calibrated on: loader, n_batches
    call,        \* classifier.py helpers: the arguments of the call under way
    ret          \* classifier.py helpers: its progress and result

vars == <<kind, backbone, model, ens, wrapper, training, unc_scaler, n_calib, last,
          source, call, ret>>

estimator_vars == <<kind, backbone, model, ens, wrapper, training, unc_scaler, n_calib,
                    last, source>>
helper_vars == <<call, ret>>

NoCall == [op |-> "none", err |-> "none", unc |-> <<>>, S |-> 0, passes |-> 0,
           prev_state |-> TRUE, prev_scaler |-> One, target |-> 0, n_batches |-> 0,
           yielded |-> 0, zero_avg |-> FALSE, consumed |-> 0, U |-> Zero]

NoSource == [loader |-> <<>>, n_batches |-> 0]

NoHelperCall == [fn |-> "none"]

(***************************************************************************)
(* Construction: ModelWrapper.__init__, ShallowEnsembleClassifier.__init__,*)
(* ShallowEnsembleWrapper.__init__, UncertaintyWrapper.__init__            *)
(***************************************************************************)
\* the fields ModelWrapper.__init__ copies from the wrapped model m
ModelWrapper_init(m) ==
    [num_classes |-> m.num_classes, num_features |-> m.num_features,
     grad_checkpointing |-> m.grad_checkpointing]

ShallowEnsembleClassifier_init(heads, features, classes) ==
    [num_heads |-> heads, num_features |-> features, num_classes |-> classes,
     requires_grad |-> TRUE]

ShallowEnsembleWrapper_init(m, heads) ==
    LET base == ModelWrapper_init(m)
    IN [num_classes |-> base.num_classes, num_features |-> base.num_features,
        grad_checkpointing |-> base.grad_checkpointing, num_heads |-> heads,
        classifier |-> ShallowEnsembleClassifier_init(heads, base.num_features,
                                                      base.num_classes)]

\* placeholder when the estimator wraps the backbone directly
NoEnsemble ==
    [num_classes |-> 0, num_features |-> 0, grad_checkpointing |-> FALSE,
     num_heads |-> 0, classifier |-> ShallowEnsembleClassifier_init(0, 0, 0)]

\* the module the estimator holds as self.model
WrappedModel == IF backbone = "ensemble" THEN ens ELSE model

(***************************************************************************)
(* forward of each strategy on one batch x, with the estimator in mode tr  *)
(* and scaler s.  Result: err ("none" or the exception raised), unc (the   *)
(* returned uncertainty tensor), S (sample-stack size), passes (backbone   *)
(* forward passes made).                                                   *)
(***************************************************************************)
Returned(unc, S, passes) == [err |-> "none", unc |-> unc, S |-> S, passes |-> passes]
Raised(e, passes) == [err |-> e, unc |-> <<>>, S |-> 0, passes |-> passes]

Scaled(raw, s) == [b \in DOMAIN raw |-> FMul(raw[b], s)]

IsDropoutModel == backbone = "dropout"
IsShallowEnsembleWrapper == backbone = "ensemble"
num_dropout_samples == model.num_dropout_samples
\* the head count the ensemble classifier reshapes with
num_heads == ens.classifier.num_heads
gp_head == model.gp_head

UncertaintyViaNorm_forward(tr, s, x) ==
    Returned(Scaled([b \in DOMAIN x |-> TorchDiv(One, Norm(x[b].feat))], s), 1, 1)

\* torch.ones(out.shape[0]): out is [H, B, C] for an ensemble classifier
UncertaintyViaConst_forward(tr, s, x) ==
    LET rows == IF IsShallowEnsembleWrapper THEN num_heads ELSE Len(x)
    IN Returned(Scaled([b \in 1..rows |-> One], s), 1, 1)

UncertaintyViaNetwork_forward(tr, s, x) ==
    Returned(Scaled([b \in DOMAIN x |-> Fin(x[b].net, 1)], s), 1, 1)

UncertaintyViaHETXLCov_forward(tr, s, x) ==
    IF gp_head
    THEN Returned(Scaled([b \in DOMAIN x |-> Fin(x[b].cov, 1)], s), 1, 1)
    ELSE Raised("TypeError", 1)

\* get_unc_out: entropy_of_mean - mean_of_entropy is 0 for a single sample
get_unc_out(S, s, x) ==
    Scaled([b \in DOMAIN x |-> IF S = 1 THEN Zero ELSE Fin(x[b].dis, 1)], s)

entropy_unc(s, x) == Scaled([b \in DOMAIN x |-> Fin(x[b].ent, 1)], s)

UncertaintyViaJSD_forward(tr, s, x) ==
    IF IsDropoutModel /\ ~tr
    THEN IF num_dropout_samples = 0
         THEN Raised("RuntimeError", 0)
         ELSE Returned(get_unc_out(num_dropout_samples, s, x),
                       num_dropout_samples, num_dropout_samples)
    ELSE IF IsShallowEnsembleWrapper
         THEN Returned(get_unc_out(num_heads, s, x), num_heads, 1)
         ELSE IF ~IsDropoutModel
              THEN Raised("ValueError", 0)
              ELSE Returned(entropy_unc(s, x), 1, 1)

\* (mutation: a dropout backbone is sampled in training mode too)
UncertaintyViaEntropy_forward_AnyMode(tr, s, x) ==
    IF IsDropoutModel
    THEN IF num_dropout_samples = 0
         THEN Raised("RuntimeError", 0)
         ELSE Returned(entropy_unc(s, x), num_dropout_samples, num_dropout_samples)
    ELSE IF IsShallowEnsembleWrapper
         THEN Returned(entropy_unc(s, x), num_heads, 1)
         ELSE Returned(entropy_unc(s, x), 1, 1)

UncertaintyViaEntropy_forward(tr, s, x) ==
    IF IsDropoutModel /\ ~tr
    THEN IF num_dropout_samples = 0
         THEN Raised("RuntimeError", 0)
         ELSE Returned(entropy_unc(s, x), num_dropout_samples, num_dropout_samples)
    ELSE IF IsShallowEnsembleWrapper
         THEN Returned(entropy_unc(s, x), num_heads, 1)
         ELSE Returned(entropy_unc(s, x), 1, 1)

\* self(input): dispatch on the estimator's class
forward(tr, s, x) ==
    CASE kind = "norm" -> UncertaintyViaNorm_forward(tr, s, x)
      [] kind = "const" -> UncertaintyViaConst_forward(tr, s, x)
      [] kind = "network" -> UncertaintyViaNetwork_forward(tr, s, x)
      [] kind = "entropy" -> UncertaintyViaEntropy_forward(tr, s, x)
      [] kind = "jsd" -> UncertaintyViaJSD_forward(tr, s, x)
      [] kind = "cov" -> UncertaintyViaHETXLCov_forward(tr, s, x)

(***************************************************************************)
(* UncertaintyWrapper.initialize_avg_uncertainty                           *)
(***************************************************************************)
\* the for loop from iteration i on, in evaluation mode
RECURSIVE CalibLoop(_, _, _, _, _)
CalibLoop(i, avg_unc, n_batches, loader, s) ==
    IF i > n_batches
    THEN [err |-> "none", avg |-> avg_unc, consumed |-> i - 1]
    ELSE IF i > Len(loader)
         THEN [err |-> "StopIteration", avg |-> avg_unc, consumed |-> i - 1]
         ELSE LET r == forward(FALSE, s, loader[i])
              IN IF r.err # "none"
                 THEN [err |-> r.err, avg |-> avg_unc, consumed |-> i]
                 ELSE CalibLoop(i + 1,
                                FAdd(avg_unc, PyDiv(Mean(r.unc), Fin(n_batches, 1))),
                                n_batches, loader, s)

\* self.training after the call: line 134 runs only when the loop completes
ModeAfterCalibration(prev_state, loop_err) ==
    IF loop_err = "none" THEN prev_state ELSE FALSE

\* one call on the data source held, with a target drawn from Targets
initialize_avg_uncertainty ==
    /\ n_calib < MaxCalib
    /\ \E target_avg_unc \in Targets :
         LET loader == source.loader
             n_batches == source.n_batches
             r == CalibLoop(1, Zero, n_batches, loader, unc_scaler)
             T == Fin(target_avg_unc, 1)
             err == IF r.err # "none" THEN r.err
                    ELSE IF PyDivRaises(T, r.avg) THEN "ZeroDivisionError" ELSE "none"
         IN /\ training' = ModeAfterCalibration(training, r.err)
            /\ unc_scaler' = IF err = "none" THEN PyDiv(T, r.avg) ELSE unc_scaler
            /\ last' = [NoCall EXCEPT !.op = "calibrate", !.err = err,
                          !.prev_state = training, !.prev_scaler = unc_scaler,
                          !.target = target_avg_unc, !.n_batches = n_batches,
                          !.yielded = Len(loader),
                          !.zero_avg = (r.err = "none" /\ IsZero(r.avg)),
                          !.consumed = r.consumed,
                          !.U = CalibLoop(1, Zero, n_batches, loader, One).avg]
    /\ n_calib' = n_calib + 1
    /\ UNCHANGED <<kind, backbone, model, ens, wrapper, source, helper_vars>>

\* (mutation: forward stores the batch's mean uncertainty as the scaler)
ForwardRescaling ==
    /\ \E x \in Batches :
         LET r == forward(training, unc_scaler, x)
         IN /\ last' = [NoCall EXCEPT !.op = "forward", !.err = r.err, !.unc = r.unc,
                          !.S = r.S, !.passes = r.passes]
            /\ unc_scaler' = IF r.err = "none" THEN Mean(r.unc) ELSE unc_scaler
    /\ UNCHANGED <<kind, backbone, model, ens, wrapper, training, n_calib,
                   source, helper_vars>>

\* estimator(input) outside calibration
Forward ==
    /\ \E x \in Batches :
         LET r == forward(training, unc_scaler, x)
         IN last' = [NoCall EXCEPT !.op = "forward", !.err = r.err, !.unc = r.unc,
                       !.S = r.S, !.passes = r.passes]
    /\ UNCHANGED <<kind, backbone, model, ens, wrapper, training, unc_scaler, n_calib,
                   source, helper_vars>>

\* nn.Module.train(mode) / eval() called on the estimator
SetMode ==
    /\ \E mode \in BOOLEAN : training' = mode
    /\ last' = [NoCall EXCEPT !.op = "train"]
    /\ UNCHANGED <<kind, backbone, model, ens, wrapper, unc_scaler, n_calib, source,
                   helper_vars>>

\* a freshly constructed backbone
Backbone_init(dropout_samples, gp) ==
    [num_classes |-> 2, num_features |-> 3, grad_checkpointing |-> FALSE,
     requires_grad |-> TRUE, num_dropout_samples |-> dropout_samples, gp_head |-> gp]

\* an estimator of some kind constructed around some backbone, whose
\* num_dropout_samples (dropout backbones) is drawn from the given set
ConstructedWith(dropout_samples) ==
    /\ kind \in Kinds
    /\ backbone \in Backbones
    /\ \E n \in (IF backbone = "dropout" THEN dropout_samples ELSE {0}),
          gp \in (IF kind = "cov" /\ backbone # "ensemble" THEN BOOLEAN ELSE {FALSE}) :
         model = Backbone_init(n, gp)
    /\ \E h \in 1..MaxHeads :
         ens = IF backbone = "ensemble" THEN ShallowEnsembleWrapper_init(model, h)
               ELSE NoEnsemble
    /\ wrapper = ModelWrapper_init(WrappedModel)
    /\ training = TRUE
    /\ unc_scaler = One
    /\ n_calib = 0
    /\ last = NoCall

Constructed == ConstructedWith(0..MaxDropoutSamples)

\* the data sources an estimator is calibrated on: a loader and the
\* n_batches passed with it
Sources == [loader : Loaders, n_batches : 0..MaxBatches]

Init ==
    /\ Constructed
    /\ source \in Sources
    /\ call = NoHelperCall
    /\ ret = NoHelperCall

Next == initialize_avg_uncertainty \/ Forward \/ SetMode

Spec == Init /\ [][Next]_vars

(***************************************************************************)
(* The delegated operations of ModelWrapper / ShallowEnsembleWrapper /     *)
(* UncertaintyWrapper.  The backbone's own reset_classifier and            *)
(* set_grad_checkpointing are not in these files: they set the attribute   *)
(* the wrappers read back.  Calls pass their arguments by keyword.         *)
(***************************************************************************)
\* num_heads=None
None == 0

Backbone_reset_classifier(m, classes) == [m EXCEPT !.num_classes = classes]
Backbone_set_grad_checkpointing(m, enable) == [m EXCEPT !.grad_checkpointing = enable]

\* ShallowEnsembleWrapper.reset_classifier(num_heads, num_classes=classes):
\* the wrapper e and its backbone m afterwards
ShallowEnsembleWrapper_reset_classifier(e, m, heads, classes) ==
    LET h == IF heads = None THEN e.num_heads ELSE heads
        m2 == Backbone_reset_classifier(m, classes)
    IN [ens |-> [e EXCEPT !.num_classes = m2.num_classes,
                          !.classifier = ShallowEnsembleClassifier_init(
                                             h, e.num_features, m2.num_classes)],
        model |-> m2]

\* reset_classifier called on the backbone itself
reset_classifier_direct ==
    /\ \E classes \in ClassCounts : model' = Backbone_reset_classifier(model, classes)
    /\ last' = [NoCall EXCEPT !.op = "reset_classifier"]
    /\ UNCHANGED <<kind, backbone, ens, wrapper, training, unc_scaler, n_calib,
                   source, helper_vars>>

\* reset_classifier called on the ShallowEnsembleWrapper
reset_classifier_ensemble ==
    /\ backbone = "ensemble"
    /\ \E heads \in {None} \cup 1..MaxHeads, classes \in ClassCounts :
         LET r == ShallowEnsembleWrapper_reset_classifier(ens, model, heads, classes)
         IN ens' = r.ens /\ model' = r.model
    /\ last' = [NoCall EXCEPT !.op = "reset_classifier"]
    /\ UNCHANGED <<kind, backbone, wrapper, training, unc_scaler, n_calib,
                   source, helper_vars>>

\* ModelWrapper.reset_classifier called on the estimator: forwarded to self.model
reset_classifier ==
    /\ \E heads \in {None} \cup 1..MaxHeads, classes \in ClassCounts :
         IF backbone = "ensemble"
         THEN LET r == ShallowEnsembleWrapper_reset_classifier(ens, model, heads, classes)
              IN ens' = r.ens /\ model' = r.model
         ELSE /\ heads = None
              /\ model' = Backbone_reset_classifier(model, classes)
              /\ ens' = ens
    /\ last' = [NoCall EXCEPT !.op = "reset_classifier"]
    /\ UNCHANGED <<kind, backbone, wrapper, training, unc_scaler, n_calib,
                   source, helper_vars>>

\* ModelWrapper.set_grad_checkpointing called on the estimator
set_grad_checkpointing ==
    /\ \E enable \in BOOLEAN :
         LET m2 == Backbone_set_grad_checkpointing(model, enable)
             e2 == IF backbone = "ensemble"
                   THEN [ens EXCEPT !.grad_checkpointing = m2.grad_checkpointing]
                   ELSE ens
             inner == IF backbone = "ensemble" THEN e2 ELSE m2
         IN /\ model' = m2
            /\ ens' = e2
            /\ wrapper' = [wrapper EXCEPT !.grad_checkpointing = inner.grad_checkpointing]
    /\ last' = [NoCall EXCEPT !.op = "set_grad_checkpointing"]
    /\ UNCHANGED <<kind, backbone, training, unc_scaler, n_calib, source, helper_vars>>

\* UncertaintyWrapper.freeze_backbone: every parameter of self.model
freeze_backbone ==
    /\ model' = [model EXCEPT !.requires_grad = FALSE]
    /\ ens' = IF backbone = "ensemble"
              THEN [ens EXCEPT !.classifier.requires_grad = FALSE]
              ELSE ens
    /\ last' = [NoCall EXCEPT !.op = "freeze_backbone"]
    /\ UNCHANGED <<kind, backbone, wrapper, training, unc_scaler, n_calib,
                   source, helper_vars>>

\* one batch of one example with zero features and zero entropy, and one of two
\* examples with neither
WrapperSources ==
    {[loader |-> <<<<ExZero>>>>, n_batches |-> 1],
     [loader |-> <<<<ExA, ExB>>>>, n_batches |-> 1]}

InitWrappers ==
    /\ ConstructedWith({MaxDropoutSamples})
    /\ source \in WrapperSources
    /\ call = NoHelperCall
    /\ ret = NoHelperCall

NextWrappers ==
    \/ initialize_avg_uncertainty
    \/ Forward
    \/ SetMode
    \/ reset_classifier_direct
    \/ reset_classifier_ensemble
    \/ reset_classifier
    \/ set_grad_checkpointing
    \/ freeze_backbone

SpecWrappers == InitWrappers /\ [][NextWrappers]_vars

(***************************************************************************)
(* Claims about the estimators (specification Spec)                        *)
(***************************************************************************)
Calibrated == last.op = "calibrate"
CalibrationFailed == Calibrated /\ last.err # "none"
CalibrationSucceeded == Calibrated /\ last.err = "none"

\* C1: initialize_avg_uncertainty leaves self.training as it was before the
\* call on every exit path, whether it returns or raises.
C1_ModeRestoredOnEveryExit == Calibrated => training = last.prev_state

\* C2: a calibration whose data source yields no batches or fewer than
\* n_batches batches, or whose observed average is zero (n_batches = 0
\* included), raises and leaves unc_scaler as it was; any raising call leaves
\* it as it was; unc_scaler changes only after all n_batches were consumed.
C2_FailedCalibrationKeepsScaler ==
    Calibrated =>
        /\ (last.yielded = 0 \/ last.yielded < last.n_batches \/ last.zero_avg)
               => (last.err # "none" /\ unc_scaler = last.prev_scaler)
        /\ last.err # "none" => unc_scaler = last.prev_scaler
        /\ unc_scaler # last.prev_scaler
               => (last.err = "none" /\ last.consumed = last.n_batches)

\* a calibration over a non-empty, long enough source whose average was zero
C2_ZeroAverageWitness ==
    /\ Calibrated
    /\ last.n_batches >= 1
    /\ last.yielded >= last.n_batches
    /\ last.zero_avg
    /\ last.err = "ZeroDivisionError"
    /\ unc_scaler = last.prev_scaler

\* C3: forward of the entropy-based and of the JSD-based estimator raises a
\* configuration error on a backbone that is neither a dropout backbone nor a
\* ShallowEnsembleWrapper, in training and in evaluation mode.
C3_PlainBackboneRejected ==
    (last.op = "forward" /\ kind \in {"entropy", "jsd"} /\ backbone = "plain")
        => last.err = "ValueError"

\* C4: after a successful calibration with target T on the fixed source,
\* whose uncalibrated (unc_scaler = 1) average uncertainty is
\* U > 0, unc_scaler = T / U and a pass over the same batches averages T,
\* however many successful calibrations preceded it.
C4_CalibrationRoundTrip ==
    (CalibrationSucceeded /\ IsFinite(last.U) /\ ~IsZero(last.U))
        => /\ unc_scaler = FQuot(Fin(last.target, 1), last.U)
           /\ FMul(unc_scaler, last.U) = Fin(last.target, 1)

\* C10: forward of the norm-based estimator never returns an infinite or
\* not-a-number uncertainty, also for an example whose feature norm is 0.
C10_ZeroNormGuarded ==
    (last.op = "forward" /\ kind = "norm" /\ last.err = "none")
        => \A b \in DOMAIN last.unc : IsFinite(last.unc[b])


StackedForward == last.op = "forward" /\ kind \in {"entropy", "jsd"}

\* C11: a forward call of the entropy or JSD estimator runs a dropout backbone
\* in evaluation mode exactly num_dropout_samples times and stacks that many
\* samples; runs a ShallowEnsembleWrapper backbone once and stacks one sample
\* per head; and otherwise, when it does not raise, makes one pass and stacks
\* one sample (a dropout backbone in training mode included).
C11_SampleStackSize ==
    StackedForward =>
        IF backbone = "dropout" /\ ~training
        THEN /\ last.passes = model.num_dropout_samples
             /\ last.err = "none" => last.S = model.num_dropout_samples
             /\ last.err # "none" => model.num_dropout_samples = 0
        ELSE IF backbone = "ensemble"
             THEN /\ last.err = "none"
                  /\ last.passes = 1
                  /\ last.S = ens.classifier.num_heads
             ELSE last.err = "none" => last.passes = 1 /\ last.S = 1

\* the entropy estimator, in evaluation mode, has sampled a dropout backbone
\* MaxDropoutSamples times
C11_DropoutWitness ==
    /\ StackedForward
    /\ kind = "entropy"
    /\ backbone = "dropout"
    /\ ~training
    /\ last.err = "none"
    /\ model.num_dropout_samples = MaxDropoutSamples
    /\ last.S = MaxDropoutSamples
    /\ last.passes = MaxDropoutSamples

(***************************************************************************)
(* Claims about the wrappers (specification SpecWrappers)                  *)
(***************************************************************************)
\* C5: whatever reset_classifier calls were made, on the backbone or through
\* a wrapper, every wrapper's cached num_classes and num_features equal the
\* backbone's current ones.
C5_CachedAttributesFresh ==
    /\ wrapper.num_classes = model.num_classes
    /\ wrapper.num_features = model.num_features
    /\ backbone = "ensemble"
           => /\ ens.num_classes = model.num_classes
              /\ ens.num_features = model.num_features

\* C6: unc_scaler is 1 after construction, and a step changes it only if it
\* is an initialize_avg_uncertainty call that returned without error: no
\* forward, reset_classifier, set_grad_checkpointing or freeze_backbone does.
C6_ScalerSetOnlyByCalibration ==
    /\ unc_scaler = One
    /\ [][unc_scaler' # unc_scaler => (last'.op = "calibrate" /\ last'.err = "none")]_vars

\* an estimator calibrated to a scaler other than 1, then used: a forward
\* pass after a reset of a frozen backbone
C6_UsedAfterCalibrationWitness ==
    /\ last.op = "forward"
    /\ last.err = "none"
    /\ n_calib >= 1
    /\ unc_scaler # One
    /\ model.num_classes # wrapper.num_classes
    /\ ~model.requires_grad
    /\ wrapper.grad_checkpointing

\* C12: whatever reset_classifier calls were made on a ShallowEnsembleWrapper,
\* with or without num_heads, its num_heads field equals the num_heads of the
\* ensemble classifier it currently holds.
C12_HeadCountInSync ==
    backbone = "ensemble" => ens.num_heads = ens.classifier.num_heads

(***************************************************************************)
(* ShallowEnsembleClassifier.forward.  A tensor is its shape and its       *)
(* elements in row-major order.                                            *)
(***************************************************************************)
\* largest class count and batch size of an ensemble head call
MaxClasses == 2
MaxBatch == 2

RECURSIVE Dot(_, _)
Dot(u, v) == IF u = <<>> THEN 0 ELSE Head(u) * Head(v) + Dot(Tail(u), Tail(v))

\* nn.Linear: x [B, F], weight [out, F], bias [out] -> [B, out]
Linear(x, weight, bias) ==
    LET B == Len(x)
        out == Len(weight)
    IN [shape |-> <<B, out>>,
        data |-> [i \in 1..(B * out) |->
                     LET b == ((i - 1) \div out) + 1
                         j == ((i - 1) % out) + 1
                     IN Dot(x[b], weight[j]) + bias[j]]]

\* t.reshape(-1, d1, d2): same elements, the leading dimension inferred
Reshape3(t, d1, d2) ==
    [shape |-> <<Len(t.data) \div (d1 * d2), d1, d2>>, data |-> t.data]

\* element [i, j, k] (0-based) of a 3-d tensor
At3(t, i, j, k) == t.data[(i * t.shape[2] + j) * t.shape[3] + k + 1]

\* element [i, j] (0-based) of a 2-d tensor
At2(t, i, j) == t.data[i * t.shape[2] + j + 1]

\* (mutation: the transpose is left out)
NoTranspose(t) == t

\* t.transpose(0, 1) of a 3-d tensor
Transpose01(t) ==
    LET d0 == t.shape[1]
        d1 == t.shape[2]
        d2 == t.shape[3]
    IN [shape |-> <<d1, d0, d2>>,
        data |-> [n \in 1..(d0 * d1 * d2) |->
                     LET i == (n - 1) \div (d0 * d2)
                         j == ((n - 1) \div d2) % d0
                         k == (n - 1) % d2
                     IN At3(t, j, i, k)]]

ShallowEnsembleClassifier_forward(c, x) ==
    Transpose01(Reshape3(Linear(x, c.weight, c.bias), c.num_heads, c.num_classes))

\* embeddings of one feature and the heads' weights (nn.Linear initialises
\* them at random)
EmbeddingValues == {0, 1}
WeightValues == {1, 2}

EnsembleCalls ==
    UNION {
        [fn : {"ShallowEnsembleClassifier"}, num_heads : {H}, num_classes : {C},
         weight : [1..(H * C) -> [1..1 -> WeightValues]],
         bias : {[j \in 1..(H * C) |-> 0], [j \in 1..(H * C) |-> j]},
         x : [1..B -> [1..1 -> EmbeddingValues]]] :
        H \in 1..MaxHeads, C \in 1..MaxClasses, B \in 1..MaxBatch}

ensemble_forward ==
    /\ call.fn = "ShallowEnsembleClassifier"
    /\ ret = NoHelperCall
    /\ ret' = [fn |-> call.fn,
               flat |-> Linear(call.x, call.weight, call.bias),
               out |-> ShallowEnsembleClassifier_forward(call, call.x)]
    /\ UNCHANGED <<estimator_vars, call>>

(***************************************************************************)
(* orthogonal_random_features(stddev)(tensor): the shapes of the matrices  *)
(* it builds (their entries are random).                                   *)
(***************************************************************************)
\* largest target shape [MaxRows, MaxCols]
MaxRows == 4
MaxCols == 10

OrfCalls == [fn : {"orthogonal_random_features"}, num_rows : 1..MaxRows,
             num_cols : 1..MaxCols]

\* (mutation: the loop samples while num_cols_sampled <= num_cols)
LoopConditionInclusive(num_cols_sampled, num_cols) == num_cols_sampled <= num_cols

\* the while condition of line 48
LoopCondition(num_cols_sampled, num_cols) == num_cols_sampled < num_cols

\* torch.cat(mats, dim=-1) of matrices with equal row counts
RECURSIVE CatCols(_)
CatCols(mats) ==
    IF Len(mats) = 1 THEN Head(mats)
    ELSE [rows |-> Head(mats).rows, cols |-> Head(mats).cols + CatCols(Tail(mats)).cols]

\* m[:, :n]
FirstCols(m, n) == [rows |-> m.rows, cols |-> IF n < m.cols THEN n ELSE m.cols]

\* lines 41-47 and 60-61: unpack the shape and take a branch
orf_begin ==
    /\ call.fn = "orthogonal_random_features"
    /\ ret = NoHelperCall
    /\ ret' = IF call.num_rows < call.num_cols
              THEN [fn |-> call.fn, pc |-> "while", ortho_mat_list |-> <<>>,
                    num_cols_sampled |-> 0, n_sampled |-> 0,
                    ortho_mat |-> [rows |-> 0, cols |-> 0],
                    raw |-> [rows |-> 0, cols |-> 0]]
              ELSE [fn |-> call.fn, pc |-> "rescale", ortho_mat_list |-> <<>>,
                    num_cols_sampled |-> 0, n_sampled |-> 1,
                    ortho_mat |-> [rows |-> call.num_rows, cols |-> call.num_cols],
                    raw |-> [rows |-> call.num_rows, cols |-> call.num_cols]]
    /\ UNCHANGED <<estimator_vars, call>>

\* lines 48-54: one iteration of the while loop
orf_sample_block ==
    /\ call.fn = "orthogonal_random_features"
    /\ ret # NoHelperCall
    /\ ret.pc = "while"
    /\ LoopCondition(ret.num_cols_sampled, call.num_cols)
    /\ LET matrix == FirstCols([rows |-> call.num_rows, cols |-> call.num_cols],
                               call.num_rows)
       IN ret' = [ret EXCEPT !.ortho_mat_list = Append(@, matrix),
                             !.n_sampled = @ + 1,
                             !.num_cols_sampled = @ + call.num_rows]
    /\ UNCHANGED <<estimator_vars, call>>

\* lines 56-58: leave the loop, concatenate and truncate
orf_concat ==
    /\ call.fn = "orthogonal_random_features"
    /\ ret # NoHelperCall
    /\ ret.pc = "while"
    /\ ~LoopCondition(ret.num_cols_sampled, call.num_cols)
    /\ LET cat == CatCols(ret.ortho_mat_list)
       IN ret' = [ret EXCEPT !.pc = "rescale", !.raw = cat,
                             !.ortho_mat = FirstCols(cat, call.num_cols)]
    /\ UNCHANGED <<estimator_vars, call>>

\* lines 63-73: tensor.data = ortho_mat * feature_norms (one norm per column)
orf_rescale ==
    /\ call.fn = "orthogonal_random_features"
    /\ ret # NoHelperCall
    /\ ret.pc = "rescale"
    /\ ret' = [ret EXCEPT !.pc = "done"]
    /\ UNCHANGED <<estimator_vars, call>>

(***************************************************************************)
(* _create_pool                                                            *)
(***************************************************************************)
PoolTypes == {"avg", "max", "avgmax", "catavgmax", ""}

PoolCalls == [fn : {"_create_pool"}, num_features : 1..2, num_classes : -1..2,
              pool_type : PoolTypes, use_conv : BOOLEAN]

\* SelectAdaptivePool2d.feat_mult(): concatenated avg+max pooling doubles the width
feat_mult(pool_type) == IF pool_type = "catavgmax" THEN 2 ELSE 1

\* the assertion of lines 22-24, made when pooling is disabled
PoolAssertion(num_classes, use_conv) == num_classes = 0 \/ use_conv

create_pool_result(c) ==
    IF c.pool_type = "" /\ ~PoolAssertion(c.num_classes, c.use_conv)
    THEN [fn |-> c.fn, err |-> "AssertionError", pool_type |-> "", flatten |-> FALSE,
          num_pooled_features |-> 0]
    ELSE [fn |-> c.fn, err |-> "none", pool_type |-> c.pool_type,
          flatten |-> IF c.pool_type = "" THEN FALSE ELSE ~c.use_conv,
          num_pooled_features |-> c.num_features * feat_mult(c.pool_type)]

create_pool ==
    /\ call.fn = "_create_pool"
    /\ ret = NoHelperCall
    /\ ret' = create_pool_result(call)
    /\ UNCHANGED <<estimator_vars, call>>

(***************************************************************************)
(* _create_fc, make_random_feature_initializer, create_classifier          *)
(***************************************************************************)
RandomFeatureTypes == {"orf", "rff", "other"}
\* gp_output_imagenet_initializer: True, False or the default None
InitializerFlags == {"True", "False", "None"}

Truthy(flag) == flag = "True"

FcCalls == [fn : {"_create_fc"}, num_features : {1}, num_classes : {0, 2},
            use_conv : BOOLEAN, use_SNGP : BOOLEAN,
            gp_random_feature_type : RandomFeatureTypes,
            gp_output_imagenet_initializer : InitializerFlags]

ClassifierCalls == [fn : {"create_classifier"}, num_features : {1}, num_classes : {0, 2},
                    pool_type : {"avg", ""}, use_conv : BOOLEAN, use_SNGP : BOOLEAN,
                    gp_random_feature_type : RandomFeatureTypes,
                    gp_output_imagenet_initializer : InitializerFlags]

make_random_feature_initializer(random_feature_type) ==
    IF random_feature_type = "orf"
    THEN [err |-> "none", initializer |-> "orthogonal_random_features"]
    ELSE IF random_feature_type = "rff"
         THEN [err |-> "none", initializer |-> "random_normal"]
         ELSE [err |-> "ValueError", initializer |-> "none"]

\* the local gp_output_initializer is bound only inside the if of lines 103-104
gp_output_initializer_bound(flag) == Truthy(flag)

\* the head returned, or the exception raised.  The keyword arguments of the
\* RandomFeatureGaussianProcess call are evaluated in order:
\* make_random_feature_initializer (line 115) before the read of
\* gp_output_initializer (line 118).
create_fc_result(c) ==
    IF c.use_SNGP
    THEN IF make_random_feature_initializer(c.gp_random_feature_type).err # "none"
         THEN [err |-> make_random_feature_initializer(c.gp_random_feature_type).err,
               fc |-> "none"]
         ELSE IF ~gp_output_initializer_bound(c.gp_output_imagenet_initializer)
              THEN [err |-> "UnboundLocalError", fc |-> "none"]
              ELSE [err |-> "none", fc |-> "RandomFeatureGaussianProcess"]
    ELSE IF c.num_classes <= 0
         THEN [err |-> "none", fc |-> "Identity"]
         ELSE IF c.use_conv
              THEN [err |-> "none", fc |-> "Conv2d"]
              ELSE [err |-> "none", fc |-> "Linear"]

create_fc ==
    /\ call.fn = "_create_fc"
    /\ ret = NoHelperCall
    /\ LET r == create_fc_result(call)
       IN ret' = [fn |-> call.fn, err |-> r.err, fc |-> r.fc, stage |-> "fc"]
    /\ UNCHANGED <<estimator_vars, call>>

\* _create_pool, then _create_fc on the pooled feature count
create_classifier ==
    /\ call.fn = "create_classifier"
    /\ ret = NoHelperCall
    /\ LET p == create_pool_result(call)
           r == create_fc_result(call)
       IN ret' = IF p.err # "none"
                 THEN [fn |-> call.fn, err |-> p.err, fc |-> "none", stage |-> "pool"]
                 ELSE [fn |-> call.fn, err |-> r.err, fc |-> r.fc, stage |-> "fc"]
    /\ UNCHANGED <<estimator_vars, call>>

(***************************************************************************)
(* One call of a helper, its arguments drawn at the start.                 *)
(***************************************************************************)
InitHelpers ==
    /\ ConstructedWith({MaxDropoutSamples})
    /\ kind = "const"
    /\ backbone = "plain"
    /\ source = NoSource
    /\ call \in EnsembleCalls \cup OrfCalls \cup PoolCalls \cup FcCalls \cup ClassifierCalls
    /\ ret = NoHelperCall

NextHelpers ==
    \/ ensemble_forward
    \/ orf_begin
    \/ orf_sample_block
    \/ orf_concat
    \/ orf_rescale
    \/ create_pool
    \/ create_fc
    \/ create_classifier

SpecHelpers == InitHelpers /\ [][NextHelpers]_vars

(***************************************************************************)
(* Claims about the helpers (specification SpecHelpers)                    *)
(***************************************************************************)
EnsembleDone == call.fn = "ShallowEnsembleClassifier" /\ ret # NoHelperCall

\* C7: the output of ShallowEnsembleClassifier.forward has shape [H, B, C]
\* and output[h][b][c] = flat[b][h*C + c], flat being the [B, H*C] result of
\* the linear projection.
C7_EnsembleLayout ==
    EnsembleDone =>
        LET H == call.num_heads
            C == call.num_classes
            B == Len(call.x)
        IN /\ ret.flat.shape = <<B, H * C>>
           /\ ret.out.shape = <<H, B, C>>
           /\ Len(ret.out.data) = H * B * C
           /\ \A h \in 0..(H - 1), b \in 0..(B - 1), c \in 0..(C - 1) :
                  At3(ret.out, h, b, c) = At2(ret.flat, b, h * C + c)

\* two heads, two classes and two examples, the projection's entries not all equal
C7_EnsembleWitness ==
    /\ EnsembleDone
    /\ call.num_heads = 2
    /\ call.num_classes = 2
    /\ Len(call.x) = 2
    /\ At2(ret.flat, 0, 1) # At2(ret.flat, 0, 2)
    /\ At2(ret.flat, 0, 1) # At2(ret.flat, 1, 0)

CeilDiv(a, b) == (a + b - 1) \div b

OrfCalled == call.fn = "orthogonal_random_features" /\ ret # NoHelperCall
OrfDone == OrfCalled /\ ret.pc = "done"

\* C8: for R >= 1 and C >= 1 the initializer terminates (the loop makes
\* progress and never samples more than ceil(C/R) blocks) and yields C
\* columns of R rows; when R < C it samples exactly ceil(C/R) R x R blocks,
\* the fewest with at least C columns in all, and keeps the first C; when
\* R >= C it samples one matrix and the block loop does not run.
C8_OrfColumnAccounting ==
    OrfCalled =>
        LET R == call.num_rows
            C == call.num_cols
        IN /\ ret.pc # "done" => ENABLED NextHelpers
           /\ Len(ret.ortho_mat_list) <= CeilDiv(C, R)
           /\ ret.num_cols_sampled = Len(ret.ortho_mat_list) * R
           /\ \A i \in DOMAIN ret.ortho_mat_list :
                  ret.ortho_mat_list[i] = [rows |-> R, cols |-> R]
           /\ ret.pc = "done" =>
                  /\ ret.ortho_mat = [rows |-> R, cols |-> C]
                  /\ R < C => /\ Len(ret.ortho_mat_list) = CeilDiv(C, R)
                              /\ ret.n_sampled = CeilDiv(C, R)
                              /\ ret.raw = [rows |-> R, cols |-> CeilDiv(C, R) * R]
                              /\ ret.raw.cols >= C
                              /\ ret.raw.cols - R < C
                  /\ R >= C => /\ ret.ortho_mat_list = <<>>
                               /\ ret.n_sampled = 1
                               /\ ret.raw = [rows |-> R, cols |-> C]

\* R = 4, C = 10: 3 blocks, 12 raw columns, 10 kept
C8_OrfWitness ==
    /\ OrfDone
    /\ call.num_rows = 4
    /\ call.num_cols = 10
    /\ Len(ret.ortho_mat_list) = 3
    /\ ret.raw.cols = 12
    /\ ret.ortho_mat.cols = 10

\* C9: _create_pool accepts the empty pool type exactly when num_classes <= 0
\* or use_conv, accepts every other pool type, and returns
\* num_features * feat_mult as the pooled width.
C9_PoolAcceptance ==
    (call.fn = "_create_pool" /\ ret # NoHelperCall) =>
        /\ call.pool_type = ""
               => (ret.err = "none" <=> (call.num_classes <= 0 \/ call.use_conv))
        /\ call.pool_type # "" => ret.err = "none"
        /\ ret.err = "none"
               => ret.num_pooled_features = call.num_features * feat_mult(call.pool_type)

\* C13: building a head with use_SNGP set, through _create_fc or
\* create_classifier, succeeds for a random-feature type of "rff" or "orf"
\* whatever the output-initializer flag (True, False, None), and the only error
\* _create_fc raises on this path is the ValueError for any other type.
C13_GPHeadConstruction ==
    (/\ call.fn \in {"_create_fc", "create_classifier"}
     /\ ret # NoHelperCall
     /\ ret.stage = "fc"
     /\ call.use_SNGP)
        => /\ call.gp_random_feature_type \in {"rff", "orf"} => ret.err = "none"
           /\ ret.err # "none" =>
                  /\ ret.err = "ValueError"
                  /\ call.gp_random_feature_type \notin {"rff", "orf"}

====
